---------------------------- MODULE Spec2Model ----------------------------
(***************************************************************************)
(* A model of ConversationManager (src/ConversationManager.py): the        *)
(* transcript, the token-budget enforcer, the persona upsert, and the      *)
(* persistence layer with its descriptive rename.                          *)
(*                                                                         *)
(* Text is a sequence of one-character strings, so that strip(), lower(),  *)
(* the slug sanitiser, str.startswith and os.path.join act on characters   *)
(* as the Python code does.  The tokenizer (tiktoken) is an external       *)
(* library: it is modelled by the encoding in which every character is     *)
(* one token.  The remote completion endpoint, os.rename and the OpenAI    *)
(* client constructor are the environment: each call picks its outcome     *)
(* nondeterministically.                                                   *)
(***************************************************************************)
EXTENDS Integers, Sequences, FiniteSets, TLC

VARIABLES
    system_messages,       \* class attribute ConversationManager.system_messages
    fs,                    \* the files that exist: path -> file text
    dirs,                  \* the directories os.makedirs has created
    now,                   \* the wall clock, in seconds
    alive,                 \* a session object exists (construction succeeded)
    default_model,         \* self.default_model
    token_budget,          \* self.token_budget
    system_message,        \* self.system_message (None or text)
    history_file,          \* self.history_file
    conversation_history,  \* self.conversation_history
    has_client,            \* hasattr(self, "_client")
    sessions,              \* number of sessions constructed so far
    calls,                 \* number of method calls so far, on any session
    renames,               \* successful os.rename calls of the live session
    pc,                    \* position inside enforce_token_budget ("idle" outside it)
    last,                  \* what the last call did and gave back to its caller
    placeholder,           \* the name default_history_filename gave the live session
    other                  \* the session built before the live one, still referenced

vars == << system_messages, fs, dirs, now, alive, default_model, token_budget,
           system_message, history_file, conversation_history, has_client,
           sessions, calls, renames, pc, last, placeholder, other >>

(***************************************************************************)
(* Bounds of the model.                                                    *)
(***************************************************************************)
MaxSessions == 2
MaxCalls == 3

\* Python's None, where a text may stand (a text is a sequence of characters)
None == << "None" >>

\* Python truthiness of an Optional[str]
Truthy(t) == t # None /\ t # << >>

(***************************************************************************)
(* Text helpers.                                                           *)
(***************************************************************************)
Whitespace == {" "}

AlNum == {"a", "c", "h", "t", "s", "i", "o", "k", "D", "J", "N", "x", "y",
          "0", "1", "2", "3", "4", "5", "6", "7", "8", "9"}

Digits == << "0", "1", "2", "3", "4", "5", "6", "7", "8", "9" >>

\* str.lower on the characters the model uses
LowerChar(c) ==
    CASE c = "D" -> "d"
      [] c = "J" -> "j"
      [] c = "N" -> "n"
      [] c = "C" -> "c"
      [] OTHER -> c

lower(s) == [i \in 1..Len(s) |-> LowerChar(s[i])]

RECURSIVE lstrip(_, _)
lstrip(s, cs) ==
    IF s # << >> /\ Head(s) \in cs THEN lstrip(Tail(s), cs) ELSE s

RECURSIVE rstrip(_, _)
rstrip(s, cs) ==
    IF s # << >> /\ s[Len(s)] \in cs THEN rstrip(SubSeq(s, 1, Len(s) - 1), cs) ELSE s

\* str.strip(): leading and trailing whitespace removed
strip(s) == rstrip(lstrip(s, Whitespace), Whitespace)

\* str.startswith
startswith(s, p) == Len(s) >= Len(p) /\ SubSeq(s, 1, Len(p)) = p

\* sep.join(parts)
RECURSIVE join(_, _)
join(sep, parts) ==
    IF parts = << >> THEN << >>
    ELSE IF Len(parts) = 1 THEN parts[1]
    ELSE parts[1] \o sep \o join(sep, Tail(parts))

\* s.split(sep) for a one-character separator: the pieces between separators
RECURSIVE split(_, _)
split(s, sep) ==
    IF \A i \in 1..Len(s) : s[i] # sep THEN << s >>
    ELSE LET k == CHOOSE i \in 1..Len(s) : s[i] = sep /\ \A j \in 1..(i - 1) : s[j] # sep
         IN  << SubSeq(s, 1, k - 1) >> \o split(SubSeq(s, k + 1, Len(s)), sep)

\* filter(None, parts): the non-empty pieces
RECURSIVE filter_nonempty(_)
filter_nonempty(parts) ==
    IF parts = << >> THEN << >>
    ELSE IF Head(parts) = << >> THEN filter_nonempty(Tail(parts))
    ELSE << Head(parts) >> \o filter_nonempty(Tail(parts))

Min(a, b) == IF a <= b THEN a ELSE b

(***************************************************************************)
(* Tokenizer adapter.                                                      *)
(***************************************************************************)
KnownModels == {"gpt-4o-mini"}

\* tiktoken.encoding_for_model raises KeyError for a model it does not know
encoding_for_model_raises(model) == model \notin KnownModels

\* len(enc.encode(text)): one token per character
encode_len(text) == Len(text)

\* count_tokens: encode_for never raises (it falls back to a fixed encoding)
count_tokens(text) == encode_len(text)

(***************************************************************************)
(* Budget enforcer.                                                        *)
(***************************************************************************)
Newline == << "\n" >>

contents(h) == [i \in 1..Len(h) |-> h[i].content]

\* enc.encode("\n".join(msg["content"] for msg in history)).__len__()
joined_len(h) == encode_len(join(Newline, contents(h)))

\* a mutant: the loop runs whatever the ceiling is
over_budget_ignores_ceiling(h, budget) == Len(h) > 1

\* the while condition of enforce_token_budget
over_budget(h, budget) == joined_len(h) > budget /\ Len(h) > 1

\* a mutant: list.pop(0)
pop_index_zero(h) == Tail(h)

\* a mutant: list.pop(): the newest entry goes
pop_index_last(h) == SubSeq(h, 1, Len(h) - 1)

\* list.pop(1)
pop_index(h) == << h[1] >> \o SubSeq(h, 3, Len(h))

\* the whole loop: the transcript enforce_token_budget leaves
RECURSIVE enforce_token_budget(_, _)
enforce_token_budget(h, budget) ==
    IF over_budget(h, budget) THEN enforce_token_budget(pop_index(h), budget) ELSE h

(***************************************************************************)
(* Paths and file names.                                                   *)
(***************************************************************************)
Slash == "/"

HistoryDir == << "h", "i", "s", "t", "o", "r", "y" >>

JsonExt == << ".", "j", "s", "o", "n" >>

TIMESTAMP_PLACEHOLDER == << "c", "h", "a", "t", "_" >>

\* os.path.join(a, b)
path_join(a, b) == a \o << Slash >> \o b

\* os.path.dirname(p): the part before the last separator, "" without one
dirname(p) ==
    IF \A i \in 1..Len(p) : p[i] # Slash THEN << >>
    ELSE LET k == CHOOSE i \in 1..Len(p) : p[i] = Slash /\ \A j \in (i + 1)..Len(p) : p[j] # Slash
         IN  SubSeq(p, 1, k - 1)

\* datetime.now().strftime(...): the clock's seconds as two digits (the date,
\* hour and minute fields are the same for every clock value of the model)
strftime(t) == << Digits[((t \div 10) % 10) + 1], Digits[(t % 10) + 1] >>

default_history_filename(t) ==
    path_join(HistoryDir, TIMESTAMP_PLACEHOLDER \o strftime(t) \o JsonExt)

placeholder_prefix == path_join(HistoryDir, TIMESTAMP_PLACEHOLDER)

\* the guard of maybe_generate_descriptive_filename
is_placeholder(file) == startswith(file, placeholder_prefix)

SLUG_MAX == 50

Underscore == "_"

ChatWord == << "c", "h", "a", "t" >>

\* step 4 of maybe_generate_descriptive_filename: sanitise the model's title
slug_of(raw_title) ==
    LET replaced == [i \in 1..Len(raw_title) |->
                        IF raw_title[i] \in AlNum THEN raw_title[i] ELSE Underscore]
        stripped == rstrip(lstrip(replaced, {Underscore}), {Underscore})
        collapsed == join(<< Underscore >>, filter_nonempty(split(stripped, Underscore)))
        cut == SubSeq(collapsed, 1, Min(SLUG_MAX, Len(collapsed)))
    IN  IF cut = << >> THEN ChatWord ELSE cut

\* the candidate names: slug.json, slug_1.json, slug_2.json, ...
candidate(slug, counter) ==
    IF counter = 0 THEN path_join(HistoryDir, slug \o JsonExt)
    ELSE path_join(HistoryDir, slug \o << Underscore, Digits[counter + 1] >> \o JsonExt)

\* a mutant: the bare slug name is taken without looking
free_path_unchecked(files, slug, counter) == candidate(slug, 0)

\* the while os.path.exists(new_path) loop: the first candidate that is free
RECURSIVE free_path(_, _, _)
free_path(files, slug, counter) ==
    IF candidate(slug, counter) \in files THEN free_path(files, slug, counter + 1)
    ELSE candidate(slug, counter)

(***************************************************************************)
(* JSON: json.dump writes the list as tokens, json.load reads them back.   *)
(* A token is a text: a bracket, a role name, or a content string.         *)
(***************************************************************************)
Roles == {"system", "user", "assistant"}

RoleText(r) ==
    CASE r = "system" -> << "s", "y", "s", "t", "e", "m" >>
      [] r = "user" -> << "u", "s", "e", "r" >>
      [] r = "assistant" -> << "a", "s", "s", "i", "s", "t", "a", "n", "t" >>

LBracket == << "[" >>
RBracket == << "]" >>
LBrace == << "{" >>
RBrace == << "}" >>

RECURSIVE dump_messages(_)
dump_messages(h) ==
    IF h = << >> THEN << >>
    ELSE << LBrace, RoleText(Head(h).role), Head(h).content, RBrace >>
             \o dump_messages(Tail(h))

json_dump(h) == << LBracket >> \o dump_messages(h) \o << RBracket >>

RECURSIVE parse_messages(_)
parse_messages(toks) ==
    IF toks = << >> THEN << >>
    ELSE << [role |-> CHOOSE r \in Roles : RoleText(r) = toks[2], content |-> toks[3]] >>
             \o parse_messages(SubSeq(toks, 5, Len(toks)))

RECURSIVE well_formed_messages(_)
well_formed_messages(toks) ==
    \/ toks = << >>
    \/ /\ Len(toks) >= 4
       /\ toks[1] = LBrace
       /\ \E r \in Roles : RoleText(r) = toks[2]
       /\ toks[4] = RBrace
       /\ well_formed_messages(SubSeq(toks, 5, Len(toks)))

\* a byte sequence that is not UTF-8: reading the file in text mode raises
\* UnicodeDecodeError, which is not a JSONDecodeError
InvalidByte == << "\\xff" >>

Punctuation == {LBracket, RBracket, LBrace, RBrace}

\* the text is [ ... ] around tokens that are all strings
scalar_list(text) ==
    /\ Len(text) >= 2 /\ text[1] = LBracket /\ text[Len(text)] = RBracket
    /\ \A i \in 2..(Len(text) - 1) : text[i] \notin Punctuation

\* json.load on a file opened as UTF-8 text: a list of messages, a list of
\* strings, a string, an object (any of them valid JSON), a JSONDecodeError,
\* or a UnicodeDecodeError from the read
json_load(text) ==
    IF \E i \in 1..Len(text) : text[i] = InvalidByte
    THEN [kind |-> "undecodable", data |-> << >>]
    ELSE IF Len(text) >= 2 /\ text[1] = LBracket /\ text[Len(text)] = RBracket
          /\ well_formed_messages(SubSeq(text, 2, Len(text) - 1))
    THEN [kind |-> "list", data |-> parse_messages(SubSeq(text, 2, Len(text) - 1))]
    ELSE IF scalar_list(text)
    THEN [kind |-> "list", data |-> SubSeq(text, 2, Len(text) - 1)]
    ELSE IF text = << LBrace, RBrace >>
    THEN [kind |-> "object", data |-> << >>]
    ELSE IF Len(text) = 1 /\ text[1] \notin Punctuation
    THEN [kind |-> "string", data |-> text[1]]
    ELSE [kind |-> "error", data |-> << >>]

\* load_conversation_history lets an exception through: only FileNotFoundError
\* and JSONDecodeError are caught
load_raises(files, file) ==
    file \in DOMAIN files /\ json_load(files[file]).kind = "undecodable"

\* load_conversation_history: the transcript after the call, given the one before
load_conversation_history(files, file, before) ==
    IF file \notin DOMAIN files THEN << >>
    ELSE LET got == json_load(files[file])
         IN  CASE got.kind = "list" -> got.data
               [] got.kind \in {"object", "string", "undecodable"} -> before
               [] OTHER -> << >>

(***************************************************************************)
(* Persona upsert.                                                         *)
(***************************************************************************)
has_system(h) == \E i \in 1..Len(h) : h[i].role = "system"

first_system(h) == CHOOSE i \in 1..Len(h) : h[i].role = "system" /\ \A j \in 1..(i - 1) : h[j].role # "system"

\* a mutant: the upsert overwrites the first entry, whatever its role
upsert_system_overwrites_first(h, text) ==
    IF h = << >> THEN << [role |-> "system", content |-> text] >>
    ELSE [h EXCEPT ![1] = [role |-> "system", content |-> text]]

\* a mutant: the upsert always inserts
upsert_system_always_insert(h, text) ==
    << [role |-> "system", content |-> text] >> \o h

\* update_system_message_in_history, without its save
upsert_system(h, text) ==
    IF has_system(h)
    THEN [h EXCEPT ![first_system(h)].content = text]
    ELSE << [role |-> "system", content |-> text] >> \o h

(***************************************************************************)
(* Descriptive rename: the excerpt of step 1.                              *)
(***************************************************************************)
EXCERPT_TOKENS == 120

segment(msg) == RoleText(msg.role) \o << ":", " " >> \o msg.content

RECURSIVE excerpt_parts(_, _)
excerpt_parts(h, running_tokens) ==
    IF h = << >> THEN << >>
    ELSE IF Head(h).role = "system" THEN excerpt_parts(Tail(h), running_tokens)
    ELSE LET seg == segment(Head(h))
             total == running_tokens + count_tokens(seg)
         IN  IF total >= EXCERPT_TOKENS THEN << seg >>
             ELSE << seg >> \o excerpt_parts(Tail(h), total)

(***************************************************************************)
(* Persistence: the descriptive rename and the save.  env holds what the   *)
(* environment answers during the call: client_ok (the OpenAI client can   *)
(* be built), slug_ok and title (the slug request and its text), and       *)
(* rename_ok (os.rename is not refused by the operating system).           *)
(***************************************************************************)
\* os.rename(src, dst) on the file table
rename_file(files, src, dst) ==
    [p \in (DOMAIN files \ {src}) \cup {dst} |-> IF p = dst THEN files[src] ELSE files[p]]

\* open(path, "w") and json.dump
write_file(files, path, h) ==
    [p \in DOMAIN files \cup {path} |-> IF p = path THEN json_dump(h) ELSE files[p]]

\* a mutant: a refused rename still records the new name
recorded_after_refusal_new(file, new_path) == new_path

\* the except branch of step 5: self.history_file was not assigned
recorded_after_refusal(file, new_path) == file

\* steps 2 to 5 need these answers; the result says what the routine did
maybe_generate_descriptive_filename(file, h, files, client, env) ==
    LET stay(why, cl, asked) ==
            [file |-> file, files |-> files, client |-> cl, rename |-> why,
             slug_requests |-> asked]
    IN  IF ~is_placeholder(file) THEN stay("not_placeholder", client, 0)
        ELSE IF excerpt_parts(h, 0) = << >> THEN stay("no_excerpt", client, 0)
        ELSE IF ~client /\ ~env.client_ok THEN stay("client_failed", FALSE, 0)
        ELSE IF ~env.slug_ok THEN stay("slug_failed", TRUE, 1)
        ELSE LET raw_title == lower(strip(env.title))
                 new_path == free_path(DOMAIN files, slug_of(raw_title), 0)
             IN  IF file \notin DOMAIN files
                 THEN \* os.rename raises FileNotFoundError: nothing was written yet
                      [file |-> recorded_after_refusal(file, new_path), files |-> files,
                       client |-> TRUE, rename |-> "no_source", slug_requests |-> 1]
                 ELSE IF env.rename_ok
                 THEN [file |-> new_path, files |-> rename_file(files, file, new_path),
                       client |-> TRUE, rename |-> "renamed", slug_requests |-> 1]
                 ELSE [file |-> recorded_after_refusal(file, new_path), files |-> files,
                       client |-> TRUE, rename |-> "rename_failed", slug_requests |-> 1]

\* a mutant: the transcript is written under the name of before the rename
save_conversation_history_stale_name(file, h, files, client, env) ==
    LET r == maybe_generate_descriptive_filename(file, h, files, client, env)
    IN  [r EXCEPT !.files = write_file(r.files, file, h)]

save_conversation_history(file, h, files, client, env) ==
    LET r == maybe_generate_descriptive_filename(file, h, files, client, env)
    IN  [r EXCEPT !.files = write_file(r.files, r.file, h)]

(***************************************************************************)
(* Inputs and environment answers.                                         *)
(***************************************************************************)
DavePrompt == << "D" >>
NickFuryPrompt == << "N" >>
JarvisPrompt == << "J" >>

\* the class attribute as the module is imported
InitialSystemMessages ==
    [p \in {"Dave", "Nick Fury", "Jarvis", "Custom"} |->
        CASE p = "Dave" -> DavePrompt
          [] p = "Nick Fury" -> NickFuryPrompt
          [] p = "Jarvis" -> JarvisPrompt
          [] OTHER -> << >>]

\* persona=None
NoPersona == ""

PersonaArgs == {NoPersona, "Dave"}

SetPersonaArgs == {"Dave", "Custom", "Nonexistent"}

CustomArgs == {<< " ", "x", " " >>, << " " >>}

SystemMessageArgs == {None, << "x" >>}

Prompts == {<< "h", "i" >>, << "y" >>}

\* the text of the remote reply, before strip()
Replies == {<< " ", "o", "k" >>}

\* the text the remote model gives for the file name, before strip().lower()
Titles == {<< "C", "a", "t", "s" >>, << "c", "h", "a", "t", " ", "x" >>}

Models == {"gpt-4o-mini", "local-model"}

\* the token budgets a deployment may be configured with
Budgets == {3, 9}

AnyReply == CHOOSE r \in Replies : TRUE

AnyTitle == CHOOSE t \in Titles : TRUE

\* the answers of the environment, one for each course a call can take: an
\* answer the call never reads (the reply of a request that failed, the title
\* of a slug request that failed) is fixed
Envs ==
    {e \in [client_ok : BOOLEAN, remote_ok : BOOLEAN, reply : Replies,
            slug_ok : BOOLEAN, title : Titles, rename_ok : BOOLEAN] :
        /\ ~e.client_ok => e.remote_ok
        /\ ~e.remote_ok => e.reply = AnyReply /\ e.slug_ok
        /\ ~e.slug_ok => e.title = AnyTitle /\ e.rename_ok}

\* the answers a save reads (the completion's own answers do not matter to it)
SaveEnvs == {e \in Envs : e.remote_ok /\ e.reply = AnyReply}

NoRequest == << >>

\* What a call did, as its caller sees it: op and arg name the call, raised the
\* exception that reached the caller ("none": it returned), ret the value
\* returned, pre the transcript before the call (for the constructor: the
\* transcript it loaded), pre_file the resource id before the call, request the
\* messages handed to the completion request, evicted the entries the budget
\* enforcer popped, rename what the descriptive rename did, slug_requests the
\* slug requests issued, saved whether the transcript was written.
Observation(op, arg, raised, ret, pre, request, evicted, sv, saved) ==
    [op |-> op, arg |-> arg, raised |-> raised, ret |-> ret, pre |-> pre,
     pre_file |-> history_file, request |-> request, evicted |-> evicted,
     rename |-> sv.rename, slug_requests |-> sv.slug_requests, saved |-> saved]

NoSave == [rename |-> "none", slug_requests |-> 0]

\* the fields of a session object that another session's calls could disturb
SessionFields(is_alive, sysmsg, file, history, default_name) ==
    [alive |-> is_alive, system_message |-> sysmsg, history_file |-> file,
     conversation_history |-> history, placeholder |-> default_name]

\* the registry the other session reads: no instance has a system_messages
\* attribute of its own, self.system_messages is the class attribute
other_registry == system_messages

\* no session was built before the live one
NoSession == SessionFields(FALSE, None, None, << >>, None)

\* the arguments of a constructor call, as the observation records them
InitArgs(key, persona, sysmsg, file) ==
    [api_key |-> key, persona |-> persona, system_message |-> sysmsg, history_file |-> file]

(***************************************************************************)
(* The state after the module is imported, before any session exists.      *)
(***************************************************************************)
Init ==
    /\ system_messages = InitialSystemMessages
    /\ fs = << >>
    /\ dirs = {}
    /\ now = 0
    /\ alive = FALSE
    /\ default_model \in Models
    /\ token_budget \in Budgets
    /\ system_message = None
    /\ history_file = None
    /\ conversation_history = << >>
    /\ has_client = FALSE
    /\ sessions = 0
    /\ calls = 0
    /\ renames = 0
    /\ pc = "idle"
    /\ last = Observation("import", None, "none", None, << >>, NoRequest, 0, NoSave, FALSE)
    /\ placeholder = None
    /\ other = NoSession

\* the role __init__ gives the entry it seeds the transcript with
SeedRole == "user"

\* a mutant: the storage directory is made before the credential is checked
Construct_makedirs_first(key, persona, sysmsg, budget, file, model, t) ==
    /\ pc = "idle"
    /\ sessions < MaxSessions
    /\ LET chosen_system ==
               IF Truthy(sysmsg) THEN sysmsg
               ELSE IF persona # NoPersona /\ persona \in DOMAIN system_messages
                    THEN system_messages[persona]
                    ELSE None
           the_file == IF Truthy(file) THEN file ELSE default_history_filename(t)
           the_dir == IF dirname(the_file) = << >> THEN << "." >> ELSE dirname(the_file)
           loaded == load_conversation_history(fs, the_file, << >>)
           history == IF loaded = << >> /\ Truthy(chosen_system)
                      THEN << [role |-> SeedRole, content |-> chosen_system] >>
                      ELSE loaded
       IN  /\ dirs' = dirs \cup {the_dir}
           /\ IF ~key
              THEN /\ sessions' = sessions
                   /\ now' = now
                   /\ last' = Observation("init", InitArgs(key, persona, sysmsg, file),
                                          "ValueError", None, conversation_history,
                                          NoRequest, 0, NoSave, FALSE)
                   /\ UNCHANGED << system_messages, fs, alive, default_model,
                                   token_budget, system_message, history_file,
                                   conversation_history, has_client, calls, renames, pc,
                                   placeholder, other >>
              ELSE /\ sessions' = sessions + 1
                   /\ now' = t
                   /\ alive' = TRUE
                   /\ default_model' = model
                   /\ token_budget' = budget
                   /\ system_message' = chosen_system
                   /\ history_file' = the_file
                   /\ conversation_history' = history
                   /\ has_client' = FALSE
                   /\ renames' = 0
                   /\ last' = [Observation("init", InitArgs(key, persona, sysmsg, file),
                                           "none", None, loaded, NoRequest, 0, NoSave, FALSE)
                                  EXCEPT !.pre_file = the_file]
                   /\ placeholder' = IF Truthy(file) THEN None ELSE the_file
                   /\ other' = SessionFields(alive, system_message, history_file,
                                             conversation_history, placeholder)
                   /\ UNCHANGED << system_messages, fs, calls, pc >>

\* ConversationManager(api_key, persona=..., system_message=..., token_budget=...,
\* history_file=..., default_model=...); key says whether a credential is found,
\* t is the clock when the constructor runs
Construct(key, persona, sysmsg, budget, file, model, t) ==
    /\ pc = "idle"
    /\ sessions < MaxSessions
    /\ IF ~key
       THEN /\ sessions' = sessions
            /\ now' = now
            /\ last' = Observation("init", InitArgs(key, persona, sysmsg, file), "ValueError",
                                   None, conversation_history, NoRequest, 0, NoSave, FALSE)
            /\ UNCHANGED << system_messages, fs, dirs, alive, default_model,
                            token_budget, system_message, history_file,
                            conversation_history, has_client, calls, renames, pc,
                            placeholder, other >>
       ELSE LET chosen_system ==
                    IF Truthy(sysmsg) THEN sysmsg
                    ELSE IF persona # NoPersona /\ persona \in DOMAIN system_messages
                         THEN system_messages[persona]
                         ELSE None
                the_file == IF Truthy(file) THEN file ELSE default_history_filename(t)
                the_dir == IF dirname(the_file) = << >> THEN << "." >> ELSE dirname(the_file)
                loaded == load_conversation_history(fs, the_file, << >>)
                history == IF loaded = << >> /\ Truthy(chosen_system)
                           THEN << [role |-> SeedRole, content |-> chosen_system] >>
                           ELSE loaded
            IN  /\ sessions' = sessions + 1
                /\ now' = t
                /\ alive' = TRUE
                /\ default_model' = model
                /\ token_budget' = budget
                /\ system_message' = chosen_system
                /\ history_file' = the_file
                /\ dirs' = dirs \cup {the_dir}
                /\ conversation_history' = history
                /\ has_client' = FALSE
                /\ renames' = 0
                /\ last' = [Observation("init", InitArgs(key, persona, sysmsg, file), "none",
                                        None, loaded, NoRequest, 0, NoSave, FALSE)
                               EXCEPT !.pre_file = the_file]
                /\ placeholder' = IF Truthy(file) THEN None ELSE the_file
                /\ other' = SessionFields(alive, system_message, history_file,
                                          conversation_history, placeholder)
                /\ UNCHANGED << system_messages, fs, calls, pc >>

\* every method call counts towards the bound of the model
Counted == calls' = calls + 1

\* load_conversation_history(), as the caller layer calls it on a loaded session
Load ==
    /\ pc = "idle"
    /\ alive
    /\ calls < MaxCalls
    /\ conversation_history' = load_conversation_history(fs, history_file, conversation_history)
    /\ last' = Observation("load", None,
                           IF load_raises(fs, history_file) THEN "UnicodeDecodeError"
                           ELSE "none",
                           None, conversation_history, NoRequest, 0, NoSave, FALSE)
    /\ UNCHANGED << system_messages, fs, dirs, now, alive, default_model, token_budget,
                    system_message, history_file, has_client, sessions, renames, pc,
                    placeholder, other >>
    /\ Counted

\* what a save leaves in the session and on disk
Saved(sv) ==
    /\ fs' = sv.files
    /\ history_file' = sv.file
    /\ has_client' = sv.client
    /\ renames' = renames + (IF sv.rename = "renamed" THEN 1 ELSE 0)

\* chat_completion(prompt)
chat_completion(prompt, env) ==
    /\ pc = "idle"
    /\ alive
    /\ calls < MaxCalls
    /\ LET user_turn == [role |-> "user", content |-> prompt]
           h1 == Append(conversation_history, user_turn)
           h2 == enforce_token_budget(h1, token_budget)
           assistant_content == strip(env.reply)
           h3 == Append(h2, [role |-> "assistant", content |-> assistant_content])
           h4 == enforce_token_budget(h3, token_budget)
           sv == save_conversation_history(history_file, h4, fs, TRUE, env)
           evicted == (Len(h1) - Len(h2)) + (Len(h3) - Len(h4))
       IN  IF ~has_client /\ ~env.client_ok
           THEN \* OpenAI(...) raises: nothing was touched yet
                /\ last' = Observation("chat_completion", prompt, "ClientError", None,
                                       conversation_history, NoRequest, 0, NoSave, FALSE)
                /\ UNCHANGED << fs, history_file, conversation_history, has_client, renames >>
           ELSE IF encoding_for_model_raises(default_model)
           THEN \* the first enforce_token_budget raises KeyError
                /\ conversation_history' = h1
                /\ has_client' = TRUE
                /\ last' = Observation("chat_completion", prompt, "KeyError", None,
                                       conversation_history, NoRequest, 0, NoSave, FALSE)
                /\ UNCHANGED << fs, history_file, renames >>
           ELSE IF ~env.remote_ok
           THEN \* the completion request raises
                /\ conversation_history' = h2
                /\ has_client' = TRUE
                /\ last' = Observation("chat_completion", prompt, "RemoteCallError", None,
                                       conversation_history, << h2 >>, Len(h1) - Len(h2),
                                       NoSave, FALSE)
                /\ UNCHANGED << fs, history_file, renames >>
           ELSE /\ conversation_history' = h4
                /\ Saved(sv)
                /\ last' = Observation("chat_completion", prompt, "none", assistant_content,
                                       conversation_history, << h2 >>, evicted, sv, TRUE)
    /\ UNCHANGED << system_messages, dirs, now, alive, default_model, token_budget,
                    system_message, sessions, pc, placeholder, other >>
    /\ Counted

\* update_system_message_in_history() with self.system_message already set to text
update_system_message_in_history(op, arg, text, env) ==
    LET h == upsert_system(conversation_history, text)
        sv == save_conversation_history(history_file, h, fs, has_client, env)
    IN  /\ system_message' = text
        /\ conversation_history' = h
        /\ Saved(sv)
        /\ last' = Observation(op, arg, "none", None, conversation_history, NoRequest, 0,
                               sv, TRUE)

\* set_persona(persona)
set_persona(persona, env) ==
    /\ pc = "idle"
    /\ alive
    /\ calls < MaxCalls
    /\ IF persona \notin DOMAIN system_messages \/ persona = "Custom"
       THEN /\ last' = Observation("set_persona", persona, "ValueError", None,
                                   conversation_history, NoRequest, 0, NoSave, FALSE)
            /\ UNCHANGED << fs, system_message, history_file, conversation_history,
                            has_client, renames >>
       ELSE update_system_message_in_history("set_persona", persona,
                                             system_messages[persona], env)
    /\ UNCHANGED << system_messages, dirs, now, alive, default_model, token_budget,
                    sessions, pc, placeholder, other >>
    /\ Counted

\* a mutant: the Custom slot is written before the text is validated
set_custom_system_message_stores_first(message, env) ==
    /\ pc = "idle"
    /\ alive
    /\ calls < MaxCalls
    /\ system_messages' = [system_messages EXCEPT !["Custom"] = strip(message)]
    /\ IF strip(message) = << >>
       THEN /\ last' = Observation("set_custom_system_message", message, "ValueError", None,
                                   conversation_history, NoRequest, 0, NoSave, FALSE)
            /\ UNCHANGED << fs, system_message, history_file, conversation_history,
                            has_client, renames >>
       ELSE update_system_message_in_history("set_custom_system_message", message,
                                             strip(message), env)
    /\ UNCHANGED << dirs, now, alive, default_model, token_budget, sessions, pc,
                    placeholder, other >>
    /\ Counted

\* set_custom_system_message(message)
set_custom_system_message(message, env) ==
    /\ pc = "idle"
    /\ alive
    /\ calls < MaxCalls
    /\ IF strip(message) = << >>
       THEN /\ last' = Observation("set_custom_system_message", message, "ValueError", None,
                                   conversation_history, NoRequest, 0, NoSave, FALSE)
            /\ UNCHANGED << system_messages, fs, system_message, history_file,
                            conversation_history, has_client, renames >>
       ELSE /\ system_messages' = [system_messages EXCEPT !["Custom"] = strip(message)]
            /\ update_system_message_in_history("set_custom_system_message", message,
                                                strip(message), env)
    /\ UNCHANGED << dirs, now, alive, default_model, token_budget, sessions, pc,
                    placeholder, other >>
    /\ Counted

\* the resource ids the caller layer passes: none, or a file of the history list
FileArgs == {None} \cup DOMAIN fs

\* the clock as default_history_filename reads it: the first session is built
\* at second 0, a later one within the same second or in the next; a
\* constructor that is given a resource id does not read the clock
ClockReadings(file) ==
    IF sessions = 0 \/ Truthy(file) THEN {now} ELSE {now, now + 1}

\* the caller layer builds every session with the deployment's token budget and
\* default model (Chat_GUI.init_cm passes neither)
ConstructAny ==
    \E key \in BOOLEAN, persona \in PersonaArgs, sysmsg \in SystemMessageArgs,
       file \in FileArgs :
        \E t \in ClockReadings(file) :
            Construct(key, persona, sysmsg, token_budget, file, default_model, t)

ChatAny ==
    \E prompt \in Prompts, env \in Envs :
        /\ has_client => env.client_ok
        /\ chat_completion(prompt, env)

SetPersonaAny == \E persona \in SetPersonaArgs, env \in SaveEnvs : set_persona(persona, env)

SetCustomAny == \E message \in CustomArgs, env \in SaveEnvs : set_custom_system_message(message, env)

Next == ConstructAny \/ Load \/ ChatAny \/ SetPersonaAny \/ SetCustomAny

Spec == Init /\ [][Next]_vars

(***************************************************************************)
(* enforce_token_budget on its own: any transcript, any ceiling, the loop  *)
(* taken one iteration at a time.  The loop is sequential code, so a step  *)
(* that can be taken is taken: weak fairness.                              *)
(***************************************************************************)
MaxLen == 3
MaxCeiling == 4

EnforceContents == {<< >>, << "a" >>, << "a", "b" >>}

EnforceMessages == [role : Roles, content : EnforceContents]

RECURSIVE SeqsUpTo(_, _)
SeqsUpTo(S, n) ==
    IF n = 0 THEN {<< >>}
    ELSE LET shorter == SeqsUpTo(S, n - 1)
         IN  shorter \cup {Append(q, x) : q \in {r \in shorter : Len(r) = n - 1}, x \in S}

InitEnforce ==
    /\ system_messages = InitialSystemMessages
    /\ fs = << >>
    /\ dirs = {}
    /\ now = 0
    /\ alive = TRUE
    /\ default_model \in Models
    /\ token_budget \in 0..MaxCeiling
    /\ system_message = None
    /\ history_file = default_history_filename(0)
    /\ conversation_history \in SeqsUpTo(EnforceMessages, MaxLen)
    /\ has_client = FALSE
    /\ sessions = 1
    /\ calls = 0
    /\ renames = 0
    /\ pc = "enforce"
    /\ last = Observation("enforce_token_budget", None, "none", None, conversation_history,
                          NoRequest, 0, NoSave, FALSE)
    /\ placeholder = default_history_filename(0)
    /\ other = NoSession

EnforceUnchanged ==
    UNCHANGED << system_messages, fs, dirs, now, alive, default_model, token_budget,
                 system_message, history_file, has_client, sessions, calls, renames,
                 placeholder, other >>

\* line 141: the encoding is resolved before the loop
EnforceRaise ==
    /\ pc = "enforce"
    /\ encoding_for_model_raises(default_model)
    /\ pc' = "raised"
    /\ last' = [last EXCEPT !.raised = "KeyError"]
    /\ UNCHANGED conversation_history
    /\ EnforceUnchanged

\* one iteration of the while loop
EnforceIter ==
    /\ pc = "enforce"
    /\ ~encoding_for_model_raises(default_model)
    /\ over_budget(conversation_history, token_budget)
    /\ conversation_history' = pop_index(conversation_history)
    /\ last' = [last EXCEPT !.evicted = @ + 1]
    /\ UNCHANGED pc
    /\ EnforceUnchanged

\* the loop condition is false: the method returns
EnforceReturn ==
    /\ pc = "enforce"
    /\ ~encoding_for_model_raises(default_model)
    /\ ~over_budget(conversation_history, token_budget)
    /\ pc' = "returned"
    /\ UNCHANGED << conversation_history, last >>
    /\ EnforceUnchanged

\* the method is invoked again on the transcript it returned (chat_completion
\* invokes it twice, lines 94 and 108)
EnforceAgain ==
    /\ pc = "returned"
    /\ calls < MaxCalls
    /\ pc' = "enforce"
    /\ calls' = calls + 1
    /\ last' = Observation("enforce_token_budget", None, "none", None, conversation_history,
                           NoRequest, 0, NoSave, FALSE)
    /\ UNCHANGED << system_messages, fs, dirs, now, alive, default_model, token_budget,
                    system_message, history_file, conversation_history, has_client,
                    sessions, renames, placeholder, other >>

NextEnforce == EnforceRaise \/ EnforceIter \/ EnforceReturn \/ EnforceAgain

SpecEnforce == InitEnforce /\ [][NextEnforce]_vars /\ WF_vars(NextEnforce)

(***************************************************************************)
(* load_conversation_history on its own: a session with any transcript,    *)
(* whose backing resource is absent or holds any of the file texts below   *)
(* (the resource is a file on disk: other programs write it too).          *)
(***************************************************************************)
StoredMessage == [role |-> "user", content |-> << "a" >>]

FileTexts ==
    { json_dump(<< >>),                              \* []
      json_dump(<< StoredMessage >>),                \* a saved transcript
      << >>,                                         \* an empty file
      << LBracket, LBrace >>,                        \* a truncated file
      << LBrace, RBrace >>,                          \* {}
      << << "a" >> >>,                               \* "a"
      << LBracket, << "a" >>, RBracket >>,           \* ["a"]
      << InvalidByte >> }                            \* not UTF-8

InitLoad ==
    /\ system_messages = InitialSystemMessages
    /\ history_file = default_history_filename(0)
    /\ \/ fs = << >>
       \/ \E text \in FileTexts : fs = [p \in {history_file} |-> text]
    /\ dirs = {HistoryDir}
    /\ now = 0
    /\ alive = TRUE
    /\ default_model \in Models
    /\ token_budget \in Budgets
    /\ system_message = None
    /\ conversation_history \in SeqsUpTo(EnforceMessages, MaxLen - 1)
    /\ has_client = FALSE
    /\ sessions = 1
    /\ calls = 0
    /\ renames = 0
    /\ pc = "idle"
    /\ last = Observation("init", None, "none", None, conversation_history, NoRequest, 0,
                          NoSave, FALSE)
    /\ placeholder = default_history_filename(0)
    /\ other = NoSession

NextLoad == Load

SpecLoad == InitLoad /\ [][NextLoad]_vars

(***************************************************************************)
(* The descriptive rename among other conversations' files: a session that *)
(* has saved its first round under its placeholder name, in a storage      *)
(* directory that already holds any of the names the slugs can collide     *)
(* with, goes on with completion rounds.                                   *)
(***************************************************************************)
FirstRound ==
    << [role |-> "user", content |-> << "h", "i" >>],
       [role |-> "assistant", content |-> << "o", "k" >>] >>

\* the names other conversations may already hold: slug, slug_1, slug_2
OtherNames ==
    {candidate(slug_of(lower(strip(title))), k) : title \in Titles, k \in 0..(MaxCalls - 1)}

InitRename ==
    /\ system_messages = InitialSystemMessages
    /\ history_file = default_history_filename(0)
    /\ \E taken \in SUBSET OtherNames :
           fs = [p \in taken \cup {history_file} |->
                    IF p = history_file THEN json_dump(FirstRound)
                    ELSE json_dump(<< StoredMessage >>)]
    /\ dirs = {HistoryDir}
    /\ now = 0
    /\ alive = TRUE
    /\ default_model \in KnownModels
    /\ token_budget = 9
    /\ system_message = None
    /\ conversation_history = FirstRound
    /\ has_client = TRUE
    /\ sessions = 1
    /\ calls = 1
    /\ renames = 0
    /\ pc = "idle"
    /\ last = Observation("chat_completion", << "h", "i" >>, "none", << "o", "k" >>, << >>,
                          << << FirstRound[1] >> >>, 0,
                          [rename |-> "no_source", slug_requests |-> 1], TRUE)
    /\ placeholder = default_history_filename(0)
    /\ other = NoSession

NextRename == ChatAny

SpecRename == InitRename /\ [][NextRename]_vars

(***************************************************************************)
(* Properties.                                                             *)
(***************************************************************************)
UserTurn(p) == [role |-> "user", content |-> p]

AssistantTurn(r) == [role |-> "assistant", content |-> r]

SystemEntry(text) == [role |-> "system", content |-> text]

SystemCount(h) == Cardinality({i \in 1..Len(h) : h[i].role = "system"})

RECURSIVE NonSystem(_)
NonSystem(h) ==
    IF h = << >> THEN << >>
    ELSE IF Head(h).role = "system" THEN NonSystem(Tail(h))
    ELSE << Head(h) >> \o NonSystem(Tail(h))

\* t is h with entries evicted from index 1 on: h's first entry, then a suffix
\* of the rest, in order
TrimOf(t, h) ==
    IF h = << >> THEN t = << >>
    ELSE \E k \in 0..(Len(h) - 1) : t = << h[1] >> \o SubSeq(h, k + 2, Len(h))

\* the recorded resource holds exactly the live transcript
StoredTranscript ==
    /\ history_file \in DOMAIN fs
    /\ json_load(fs[history_file]) = [kind |-> "list", data |-> conversation_history]

Upserted ==
    last.op \in {"set_persona", "set_custom_system_message"} /\ last.raised = "none"

\* C2: in every invocation of enforce_token_budget, at every point of its loop,
\* a transcript that had an entry still has one, and its entry at index 0 is
\* the entry that was at index 0 when the method was called.
C2_IndexZeroKept ==
    last.pre # << >> =>
        /\ conversation_history # << >>
        /\ conversation_history[1] = last.pre[1]
        /\ Len(conversation_history) = Len(last.pre) - last.evicted

\* C2 witness: the enforcer has returned after evicting two entries of a
\* three-entry transcript.
C2_Witness ==
    /\ pc = "returned"
    /\ Len(last.pre) = 3
    /\ Len(conversation_history) = 1
    /\ last.evicted = 2

\* C3: enforce_token_budget terminates (it returns, or raises for a model the
\* tokenizer does not know), and when it returns either the joined contents
\* encode to at most the ceiling or exactly one entry remains, and the
\* transcript is the original index-0 entry followed by a suffix of the
\* original later entries, in order: the result of the whole loop.
C3_Post ==
    pc = "returned" =>
        /\ joined_len(conversation_history) <= token_budget \/ Len(conversation_history) = 1
        /\ TrimOf(conversation_history, last.pre)
        /\ conversation_history = enforce_token_budget(last.pre, token_budget)

C3_TerminatesTrimmed == <>(pc # "enforce") /\ []C3_Post

\* C3 witness: the enforcer returned with a transcript still over the ceiling,
\* because only the index-0 entry is left.
C3_Witness ==
    /\ pc = "returned"
    /\ Len(last.pre) > 1
    /\ Len(conversation_history) = 1
    /\ joined_len(conversation_history) > token_budget

Hi == << "h", "i" >>

\* C1 (as claimed): a chat_completion(p) that returns, with nothing evicted,
\* leaves the transcript of before followed by {user, p} and {assistant, the
\* value returned}, and the recorded resource holds that transcript; and on a
\* session just constructed with persona Dave and no stored transcript,
\* chat_completion("hi") leaves [system: Dave prompt, user: "hi", assistant: reply].
C1_Step ==
    (last'.op = "chat_completion" /\ last'.raised = "none" /\ last'.evicted = 0
        /\ calls' = calls + 1) =>
        /\ conversation_history' =
               conversation_history \o << UserTurn(last'.arg), AssistantTurn(last'.ret) >>
        /\ StoredTranscript'
        /\ (last.op = "init" /\ last.raised = "none" /\ last.pre = << >>
            /\ system_message = DavePrompt /\ last'.arg = Hi) =>
               conversation_history' =
                   << SystemEntry(DavePrompt), UserTurn(Hi), AssistantTurn(last'.ret) >>

C1_RoundAppendsTwo == [][C1_Step]_vars

\* C4: in every reachable state the transcript of the live session holds at
\* most one entry with role system, and after a set_persona or
\* set_custom_system_message that returned, that entry is at index 0.
C4_OneSystemEntry ==
    alive =>
        /\ SystemCount(conversation_history) <= 1
        /\ Upserted => conversation_history[1].role = "system"

\* C4 witness: a second session, built on a stored transcript, has upserted
\* into a transcript that already held a system entry and later turns.
C4_Witness ==
    /\ Upserted
    /\ sessions = 2
    /\ SystemCount(last.pre) = 1
    /\ Len(last.pre) >= 3
    /\ SystemCount(conversation_history) = 1

\* C5: after a set_persona or set_custom_system_message that returned, the
\* transcript has exactly one system entry, at index 0, holding the new system
\* message (the persona's text, or the trimmed custom text); it was replaced in
\* place if the transcript had one and inserted otherwise; the other entries
\* are those of before, in the same order.
C5_UpsertResult ==
    Upserted =>
        /\ conversation_history[1] = SystemEntry(system_message)
        /\ SystemCount(conversation_history) = 1
        /\ NonSystem(conversation_history) = NonSystem(last.pre)
        /\ Len(conversation_history) =
               Len(last.pre) + (IF has_system(last.pre) THEN 0 ELSE 1)
        /\ last.op = "set_persona" => system_message = system_messages[last.arg]
        /\ last.op = "set_custom_system_message" => system_message = strip(last.arg)

\* C5 witness: an upsert replaced the content of an existing system entry in a
\* transcript with later turns.
C5_Witness ==
    /\ Upserted
    /\ has_system(last.pre)
    /\ Len(last.pre) >= 3
    /\ last.pre[1].content # system_message

\* C6 (as claimed): right after a constructor that found no stored transcript,
\* the transcript is empty if no system message was resolved, and otherwise is
\* the single entry {system, resolved system message}.
C6_FreshTranscript ==
    (last.op = "init" /\ last.raised = "none" /\ last.pre = << >>) =>
        conversation_history =
            IF Truthy(system_message) THEN << SystemEntry(system_message) >> ELSE << >>

\* C7 (as claimed): when the completion request fails, the error reaches the
\* caller and the transcript still holds the entry {user, p} as its last entry,
\* with no assistant entry after it.
C7_UserTurnKept ==
    (last.op = "chat_completion" /\ last.request # NoRequest /\ last.ret = None) =>
        /\ last.raised = "RemoteCallError"
        /\ conversation_history[Len(conversation_history)] = UserTurn(last.arg)

\* C7 (amended): when the completion request fails, the error reaches the
\* caller, nothing is saved, and the transcript is the transcript of before
\* plus {user, p}, as the budget enforcer trimmed it: the index-0 entry and a
\* suffix of the rest, within the budget or down to one entry.  {user, p} is
\* its last entry unless the enforcer left only the index-0 entry.
C7_UserTurnKeptUnlessEvicted ==
    (last.op = "chat_completion" /\ last.request # NoRequest /\ last.ret = None) =>
        LET h1 == Append(last.pre, UserTurn(last.arg))
            h == conversation_history
        IN  /\ last.raised = "RemoteCallError"
            /\ ~last.saved
            /\ TrimOf(h, h1)
            /\ Len(h) = Len(h1) - last.evicted
            /\ joined_len(h) <= token_budget \/ Len(h) = 1
            /\ h[Len(h)] = UserTurn(last.arg) \/ (Len(h) = 1 /\ h[1] = last.pre[1])
            /\ last.request = << h >>

\* C7 witness: a completion request failed after the enforcer had evicted the
\* prompt just appended.
C7_Witness ==
    /\ last.op = "chat_completion"
    /\ last.raised = "RemoteCallError"
    /\ last.evicted > 0
    /\ conversation_history = << last.pre[1] >>

\* C8 (as claimed): once a rename has succeeded in a session, no later call on
\* that session issues a slug request or changes the recorded resource id.
C8_Step ==
    (renames >= 1 /\ sessions' = sessions) =>
        /\ last'.slug_requests = 0
        /\ history_file' = history_file

C8_RenameAtMostOnce == [][C8_Step]_vars

RenameFailures == {"client_failed", "slug_failed", "rename_failed", "no_source"}

\* C9: when the descriptive rename fails (the client cannot be built, the slug
\* request fails, or os.rename fails), the call still returns normally, the
\* recorded resource id is the one of before, and the resource under that id
\* holds the full transcript.
C9_RenameFailureSwallowed ==
    last.rename \in RenameFailures =>
        /\ last.raised = "none"
        /\ last.saved
        /\ history_file = last.pre_file
        /\ StoredTranscript

\* C9 witness: os.rename failed at the end of a completion round.
C9_Witness ==
    /\ last.op = "chat_completion"
    /\ last.rename = "rename_failed"
    /\ last.slug_requests = 1
    /\ Len(conversation_history) >= 2

\* C10: after every save, loading the recorded resource id gives the transcript
\* that was saved, and after a save that renamed the resource no file is left
\* under the former name.
C10_SaveLoadRoundTrip ==
    last.saved =>
        /\ load_conversation_history(fs, history_file, << >>) = conversation_history
        /\ last.rename = "renamed" =>
               /\ history_file # last.pre_file
               /\ last.pre_file \notin DOMAIN fs

\* C10 witness: a save renamed the resource and wrote a transcript of several
\* entries under the new name.
C10_Witness ==
    /\ last.saved
    /\ last.rename = "renamed"
    /\ Len(conversation_history) >= 3
    /\ history_file \in DOMAIN fs

\* the text is a JSON array of messages
MessageArray(text) ==
    /\ Len(text) >= 2 /\ text[1] = LBracket /\ text[Len(text)] = RBracket
    /\ well_formed_messages(SubSeq(text, 2, Len(text) - 1))

\* C11 (as claimed): a load_conversation_history on a resource that does not
\* exist, or whose content is not a JSON array of messages, returns without
\* raising and leaves the transcript empty.
C11_LoadNeverRaises ==
    (last.op = "load"
        /\ (history_file \notin DOMAIN fs \/ ~MessageArray(fs[history_file]))) =>
        /\ last.raised = "none"
        /\ conversation_history = << >>

\* C12: a set_persona with a name that is not in the registry or is Custom, and
\* a set_custom_system_message with an empty or whitespace-only text, raise
\* ValueError and leave the transcript, the registry, the resolved system
\* message, the recorded resource id and the files as they were.
C12_Step ==
    (/\ calls' = calls + 1
     /\ \/ /\ last'.op = "set_persona"
           /\ last'.arg \notin DOMAIN system_messages \/ last'.arg = "Custom"
        \/ /\ last'.op = "set_custom_system_message"
           /\ strip(last'.arg) = << >>) =>
        /\ last'.raised = "ValueError"
        /\ UNCHANGED << conversation_history, system_messages, system_message, fs,
                        history_file >>

C12_InvalidInputChangesNothing == [][C12_Step]_vars

\* C12 witness: a whitespace-only custom text was refused on a session that
\* had set a custom text before and holds a transcript of several entries.
C12_Witness ==
    /\ last.op = "set_custom_system_message"
    /\ last.raised = "ValueError"
    /\ system_messages["Custom"] # << >>
    /\ system_message = system_messages["Custom"]
    /\ Len(conversation_history) >= 2

\* C13 (as claimed): with another session alive, a set_custom_system_message
\* that returns on the live session leaves the other session's registry (its
\* Custom slot included), resolved system message and transcript as they were.
C13_Step ==
    (/\ calls' = calls + 1
     /\ last'.op = "set_custom_system_message"
     /\ last'.raised = "none"
     /\ other.alive) =>
        /\ other' = other
        /\ other_registry' = other_registry

C13_CustomStaysInSession == [][C13_Step]_vars

\* C14 (as claimed): two sessions constructed one after the other, both
\* without an explicit resource id, get different placeholder names, also
\* when the clock shows the same second at both constructions.
C14_DistinctPlaceholders ==
    (/\ last.op = "init"
     /\ last.raised = "none"
     /\ placeholder # None
     /\ other.alive
     /\ other.placeholder # None) =>
        placeholder # other.placeholder

\* C15: a constructor call that finds no credential (none passed, none in the
\* environment) raises ValueError, and it does so before anything else
\* happens: no directory is made, no file is created or read, no session
\* comes to exist and the live session, if any, is as it was.
C15_Step ==
    (last'.op = "init" /\ ~last'.arg.api_key) =>
        /\ last'.raised = "ValueError"
        /\ UNCHANGED << fs, dirs, alive, sessions, system_messages, system_message,
                        history_file, conversation_history, has_client, placeholder,
                        other >>

C15_NoCredentialNothingCreated == [][C15_Step]_vars

\* C15 witness: a constructor without credential was given the resource id of
\* an existing file and raised.
C15_Witness ==
    /\ last.op = "init"
    /\ last.raised = "ValueError"
    /\ ~last.arg.api_key
    /\ last.arg.history_file \in DOMAIN fs

\* C16: on a session whose transcript has a system entry at index 0 and whose
\* token budget is smaller than the size of that entry plus one turn (the
\* prompt and the reply of the round), every completion round that returns
\* leaves at most three entries, namely [system, user, assistant] of that
\* round with entries evicted from index 1 on, and the system entry is still
\* at index 0 with its content unchanged.
C16_TightBudgetKeepsSystem ==
    (/\ last.op = "chat_completion"
     /\ last.raised = "none"
     /\ last.pre # << >>
     /\ last.pre[1].role = "system"
     /\ token_budget < encode_len(last.pre[1].content) + encode_len(last.arg)
                          + encode_len(last.ret)) =>
        /\ Len(conversation_history) <= 3
        /\ conversation_history[1] = last.pre[1]
        /\ TrimOf(conversation_history,
                  << last.pre[1], UserTurn(last.arg), AssistantTurn(last.ret) >>)

\* C16 witness: a round on a tight budget evicted older turns and the turns of
\* the round itself, down to the system entry.
C16_Witness ==
    /\ last.op = "chat_completion"
    /\ last.raised = "none"
    /\ Len(last.pre) >= 2
    /\ last.pre[1].role = "system"
    /\ token_budget < encode_len(last.pre[1].content) + encode_len(last.arg)
                         + encode_len(last.ret)
    /\ last.evicted >= 2
    /\ conversation_history = << last.pre[1] >>

\* C17: an invocation of enforce_token_budget on a transcript that is within
\* the ceiling, or that a previous invocation has just returned, evicts
\* nothing: at every point of it the transcript is the one it was called on,
\* and the transcript it returns is a fixed point of the whole loop.
C17_Idempotent ==
    /\ (joined_len(last.pre) <= token_budget \/ calls >= 1) =>
           /\ conversation_history = last.pre
           /\ last.evicted = 0
    /\ pc = "returned" =>
           enforce_token_budget(conversation_history, token_budget) = conversation_history

\* C17 witness: a second invocation returned on a one-entry transcript that is
\* still over the ceiling.
C17_Witness ==
    /\ pc = "returned"
    /\ calls >= 1
    /\ Len(conversation_history) = 1
    /\ joined_len(conversation_history) > token_budget

\* C18: whenever chat_completion(p) issues its completion request, the
\* messages it hands over either end with the entry {user, p}, or are the
\* single entry that was at index 0 before the call, and then index 0 joined
\* with the prompt exceeds the budget.
C18_PromptInRequest ==
    (last.op = "chat_completion" /\ last.request # NoRequest) =>
        LET sent == last.request[1]
        IN  /\ sent # << >>
            /\ \/ sent[Len(sent)] = UserTurn(last.arg)
               \/ /\ last.pre # << >>
                  /\ sent = << last.pre[1] >>
                  /\ joined_len(<< last.pre[1], UserTurn(last.arg) >>) > token_budget

\* C18 witness: a request went out with the prompt as its last message after
\* the enforcer had evicted an older turn from between index 0 and the prompt.
C18_Witness ==
    /\ last.op = "chat_completion"
    /\ last.request # NoRequest
    /\ Len(last.pre) >= 2
    /\ Len(last.request[1]) = 2
    /\ last.request[1][1] = last.pre[1]
    /\ last.request[1][2] = UserTurn(last.arg)

\* no completion round has left an assistant entry in the transcript
NoAssistant(h) == \A i \in 1..Len(h) : h[i].role # "assistant"

\* C19 (as claimed): on a session built without an explicit resource id and
\* still under its placeholder name, the first completion round that returns,
\* with the slug request answered and os.rename not refused by the operating
\* system, renames the resource: the recorded resource id is the slug name and
\* no longer the placeholder.
C19_RenamedAfterFirstExchange ==
    (/\ last.op = "chat_completion"
     /\ last.raised = "none"
     /\ placeholder # None
     /\ last.pre_file = placeholder
     /\ NoAssistant(last.pre)
     /\ last.rename \notin {"client_failed", "slug_failed", "rename_failed"}) =>
        /\ last.rename = "renamed"
        /\ history_file # placeholder

\* no exchange has happened: the transcript holds no assistant entry and no
\* entry with the text of a prompt (it holds system prompt texts only)
NoExchange(h) ==
    \A i \in 1..Len(h) : h[i].role # "assistant" /\ h[i].content \notin Prompts

\* C20 (as claimed): a save of a transcript in which no exchange has happened,
\* that holds only the persona or custom system prompt, issues no slug request
\* and leaves the recorded resource id as it was.
C20_NoRenameBeforeExchange ==
    (last.saved /\ NoExchange(conversation_history)) =>
        /\ last.slug_requests = 0
        /\ history_file = last.pre_file

\* path is the name the collision loop gives for slug among the names taken:
\* the bare slug if it is free, else slug_k for the smallest k >= 1 that is free
FirstFree(path, slug, taken) ==
    \E k \in 0..Cardinality(taken) :
        /\ path = candidate(slug, k)
        /\ path \notin taken
        /\ \A j \in 0..(k - 1) : candidate(slug, j) \in taken

\* C21: when the descriptive rename renames the resource, the new id named no
\* existing file; it is the bare slug of the title if that name was free and
\* otherwise slug_k for the smallest free k >= 1; and every file other than
\* the session's own is still there with the content it had.
C21_Step ==
    (calls' = calls + 1 /\ last'.rename = "renamed") =>
        /\ history_file' \notin DOMAIN fs
        /\ \E title \in Titles :
               FirstFree(history_file', slug_of(lower(strip(title))), DOMAIN fs)
        /\ \A p \in DOMAIN fs \ {history_file} :
               p \in DOMAIN fs' /\ fs'[p] = fs[p]
        /\ history_file \notin DOMAIN fs'

C21_RenameTargetFree == [][C21_Step]_vars

\* C21 witness: a rename found the bare slug and slug_1 taken by other
\* conversations and took slug_2; their files are still there.
C21_Witness ==
    /\ last.rename = "renamed"
    /\ \E title \in Titles :
           LET slug == slug_of(lower(strip(title)))
           IN  /\ history_file = candidate(slug, 2)
               /\ candidate(slug, 0) \in DOMAIN fs
               /\ candidate(slug, 1) \in DOMAIN fs
               /\ fs[candidate(slug, 0)] = json_dump(<< StoredMessage >>)

\* C22 (as claimed): on a session whose default model the tokenizer does not
\* know, no chat_completion fails because of the unknown model: the budget
\* enforcement inside it falls back to the fixed encoding, as count_tokens does.
C22_UnknownModelNeverFails ==
    (last.op = "chat_completion" /\ encoding_for_model_raises(default_model)) =>
        last.raised # "KeyError"

=============================================================================
